---- MODULE Spec2Model ----
(***************************************************************************)
(* Receipt retrieval pipeline of TelegramBot.py: the single-flight task    *)
(* cache (TASK_CACHE), the fan-out coordinator fetch_combined_receipts,    *)
(* the Gmail and FastMail scan engines and the two connection pools.       *)
(***************************************************************************)
EXTENDS Integers, Sequences, FiniteSets, TLC

\* ------------------------------------------------------------------ bounds
NumRuns == 2
MaxCount == 2
MaxMail == 2
FlightMail == 1
FlightCount == 1
MaxDate == 2
GmailServerPage == 1
TickStep == 31
MaxTime == 62
MaxCalls == 2
MaxPasses == 2
PoolTickStep == 900
PoolHorizon == 1800
MaxParses == 3
NumWorkers == 2
MaxMessages == 2
ParseTickStep == 43200
ParseHorizon == 129600
MaxNameLen == 5
MaxRecords == 6

\* ------------------------------------------------------- program constants
CACHE_EXPIRE_SECONDS == 30
GMAIL_MAX_RESULTS == 50
FASTMAIL_PAGE_SIZE == 20
FASTMAIL_MAX_RESULTS == 50
POOL_TIMEOUT == 300
MAX_RETRIES == 3
INITIAL_RETRY_DELAY == 1
SWEEP_PERIOD == 1800
PDF_CACHE_TTL == 86400
PDF_SWEEP_PERIOD == 3600
SEND_SEMAPHORE == 5

Runs == 1..NumRuns
Backends == {"gmail", "fastmail"}
EmailTypes == {"", "gmail", "fastmail"}
Counts == 1..MaxCount
\* The payer and payee names of every request of the model (payee not given).
Payer == "payer"
Payee == ""

VARIABLES
    now,                \* time.time(), in seconds
    TASK_CACHE,         \* dict: task hash -> {status, timestamp, has_result}
    arrivals,           \* the number of requests still to arrive
    offered,            \* the (email_type, count) pairs the requesters ask for
    horizon,            \* the end of the modelled time window
    dates,              \* the kinds of Date header the candidate messages carry
    inbox,              \* per backend, the number of candidate messages it can return
    gmail_creds,        \* a row for 'pay' exists in google_api_credentials
    fastmail_creds,     \* a row for 'pay' exists in fastmail_api_credentials
    GMAIL_SERVICE_POOL, \* {connections: dict, last_used: dict}
    FASTMAIL_CONN_POOL, \* {connections: dict, last_used: dict}
    built,              \* per backend, the number of handles constructed so far
    closed,             \* per backend, the handles on which close() was called
    pc,                 \* per run, the coordinator's position
    req,                \* per run, the request (email_type, count)
    reply,              \* per run, the answer given to the requester
    available,          \* per run, the result of check_available_credentials
    temp_dirs,          \* per run, its temporary directories exist on disk
    task_control,       \* per run, the coordinator's TaskControl
    task,               \* per run and backend, the state of fetch_gmail / fetch_fastmail
    results,            \* per run, the merged result list
    delivered,          \* per run, the records for which send_receipt was started
    sent_count,         \* per run, the number of successful sends
    finishes,           \* per run, how many times it wrote a completed entry
    call,               \* per backend, the retry loop of the current handle construction
    background,         \* the background coroutines main() has started
    sweep_at,           \* when the sleeping pool sweep wakes up
    passes,             \* the number of passes the pool sweep has made
    documents,          \* per path, the PDF file on disk
    pdf_text_cache,     \* _pdf_text_cache: path -> {data, timestamp}
    extractions,        \* per path, how many times its text was extracted
    returned,           \* per path, what the last parse_pdf_receipt_info gave
    parsing,            \* the last call of parse_pdf_receipt_info
    workers,            \* per worker thread, the message it is working on
    probe,              \* the last application of the matcher or of the task hash
    sends,              \* the send_receipt coroutines of a delivery
    disk                \* per run and backend, the candidates whose files are in its directory

vars == <<now, TASK_CACHE, arrivals, offered, horizon, dates, inbox, gmail_creds, fastmail_creds, GMAIL_SERVICE_POOL,
          FASTMAIL_CONN_POOL, built, closed, pc, req, reply, available, temp_dirs,
          task_control, task, results, delivered, sent_count, finishes,
          call, background, sweep_at, passes,
          documents, pdf_text_cache, extractions, returned, parsing, workers, probe,
          sends, disk>>

envVars == <<offered, horizon, dates, inbox, gmail_creds, fastmail_creds>>
poolVars == <<GMAIL_SERVICE_POOL, FASTMAIL_CONN_POOL, built, closed>>
sendVars == <<results, delivered, sent_count>>
parseVars == <<documents, pdf_text_cache, extractions, returned, parsing, workers>>
\* What the coordinator and the scans leave alone.
layerVars == <<call, background, sweep_at, passes, parseVars, probe, sends>>
\* The same and the files of the runs.
auxVars == <<layerVars, disk>>
\* What the pool layer leaves alone.
coordVars == <<TASK_CACHE, arrivals, offered, horizon, dates, inbox, pc, req, reply,
               available, temp_dirs, task_control, task, results, delivered,
               sent_count, finishes, parseVars, probe, sends, disk>>
\* What the delivery of one result list leaves alone, besides the parser's and
\* the matcher's variables.
serviceVars_NoSends == <<TASK_CACHE, arrivals, offered, horizon, dates, inbox, pc, req,
                         reply, available, temp_dirs, task_control, task, results,
                         delivered, sent_count, finishes, gmail_creds, fastmail_creds,
                         poolVars, call, background, sweep_at, passes, disk>>
\* What the parser and the matcher leave alone.
serviceVars == <<serviceVars_NoSends, sends>>

\* ------------------------------------------------------------ dictionaries
EmptyDict == << >>
Put(d, k, v) == [x \in (DOMAIN d) \cup {k} |-> IF x = k THEN v ELSE d[x]]
Del(d, k) == [x \in (DOMAIN d) \ {k} |-> d[x]]
Min(a, b) == IF a <= b THEN a ELSE b

\* str.lower() on the strings an email type can be.
Lower(s) ==
    CASE s = "Gmail" -> "gmail"
      [] s = "GMAIL" -> "gmail"
      [] s = "FastMail" -> "fastmail"
      [] s = "FASTMAIL" -> "fastmail"
      [] OTHER -> s

\* The md5 digest is taken as injective on the normalised task string.
generate_task_hash(payer_name, payee_name, count, email_type) ==
    <<Lower(email_type), payer_name, payee_name, count>>

clean_expired_cache_Keep(cache, t) == cache

clean_expired_cache_Completed(cache, t) ==
    [h \in {k \in DOMAIN cache : /\ ~(t - cache[k].timestamp > CACHE_EXPIRE_SECONDS)
                                  /\ cache[k].status # "completed"}
        |-> cache[h]]

clean_expired_cache(cache, t) ==
    [h \in {k \in DOMAIN cache : ~(t - cache[k].timestamp > CACHE_EXPIRE_SECONDS)}
        |-> cache[h]]

\* The dict stored under a task hash (its "result" field is written and never read).
CacheEntry(status, t, has_result) ==
    [status |-> status, timestamp |-> t, has_result |-> has_result]

TaskHash(r) == generate_task_hash(Payer, Payee, req[r].count, req[r].email_type)

\* ------------------------------------------------------------- task records
TaskControl == [terminate |-> FALSE, matched_count |-> 0]

NoTask ==
    [pc |-> "none", control |-> TaskControl, watcher |-> FALSE, handle |-> 0,
     scanned |-> << >>,
     total |-> 0, i |-> 0, idx |-> 0, page_len |-> 0, token |-> FALSE,
     found_enough |-> FALSE, exit |-> "none"]

EmptyPool == [connections |-> EmptyDict, last_used |-> EmptyDict]

\* The state after start-up; the environment issues `requests` requests with
\* parameters among `asked` within `window` seconds, and each backend holds up to
\* `mail` candidate messages whose Date headers are of the kinds `headers`.
InitWith(requests, asked, window, mail, headers) ==
    /\ now = 0
    /\ TASK_CACHE = EmptyDict
    /\ arrivals = requests
    /\ offered = asked
    /\ horizon = window
    /\ dates = headers
    /\ inbox = [b \in Backends |-> mail]
    /\ gmail_creds \in BOOLEAN
    /\ fastmail_creds \in BOOLEAN
    /\ GMAIL_SERVICE_POOL = EmptyPool
    /\ FASTMAIL_CONN_POOL = EmptyPool
    /\ built = [b \in Backends |-> 0]
    /\ closed = [b \in Backends |-> {}]
    /\ pc = [r \in Runs |-> "idle"]
    /\ req = [r \in Runs |-> [email_type |-> "", count |-> 1]]
    /\ reply = [r \in Runs |-> "none"]
    /\ available = [r \in Runs |-> [gmail |-> FALSE, fastmail |-> FALSE]]
    /\ temp_dirs = [r \in Runs |-> FALSE]
    /\ task_control = [r \in Runs |-> TaskControl]
    /\ task = [r \in Runs |-> [b \in Backends |-> NoTask]]
    /\ results = [r \in Runs |-> << >>]
    /\ delivered = [r \in Runs |-> << >>]
    /\ sent_count = [r \in Runs |-> 0]
    /\ finishes = [r \in Runs |-> 0]

\* No handle construction is under way and main() has started nothing yet.
IdleCall ==
    [pc |-> "idle", n |-> 0, attempt |-> 0, retry_delay |-> 0, slept |-> << >>,
     failures |-> << >>, handle |-> 0, used |-> "none"]

PoolIdle ==
    /\ call = [b \in Backends |-> IdleCall]
    /\ background = {}
    /\ sweep_at = 0
    /\ passes = 0

\* Names are strings, modelled as sequences of characters.  "wei" and "zhi"
\* stand for the two characters of the placeholder name the parser writes.
UNKNOWN == <<"wei", "zhi">>

Paths == {"a.pdf", "b.pdf"}

\* The file at a path: absent, unreadable, or a receipt whose text carries the
\* payer and payee names (the empty name: the text has no such field).
Documents ==
    {[state |-> "absent", payer |-> << >>, payee |-> << >>],
     [state |-> "corrupt", payer |-> << >>, payee |-> << >>],
     [state |-> "ok", payer |-> <<"a">>, payee |-> <<"b">>],
     [state |-> "ok", payer |-> << >>, payee |-> <<"b">>]}

AbsentFile == [state |-> "absent", payer |-> << >>, payee |-> << >>]
NoResult == [kind |-> "none", payer |-> << >>, payee |-> << >>]
RaisedResult == [kind |-> "raised", payer |-> << >>, payee |-> << >>]
TupleResult(d) == [kind |-> "tuple", payer |-> d.payer, payee |-> d.payee]

\* The threads that process the messages of one scan, and a thread that has no
\* message in hand.
Workers == 1..NumWorkers
IdleWorker == [pc |-> "idle", n |-> 0, path |-> "a.pdf", msg |-> AbsentFile,
               reused |-> FALSE, text |-> AbsentFile, got |-> NoResult]

\* Nothing was parsed yet.
ParseIdle ==
    /\ documents \in [Paths -> Documents]
    /\ pdf_text_cache = EmptyDict
    /\ extractions = [p \in Paths |-> 0]
    /\ returned = [p \in Paths |-> NoResult]
    /\ parsing = [calls |-> 0, path |-> "a.pdf", hit |-> FALSE]
    /\ workers = [w \in Workers |-> IdleWorker]

NoDocuments == documents = [p \in Paths |-> [state |-> "absent", payer |-> << >>,
                                                 payee |-> << >>]]

MatchIdle == probe = [kind |-> "none"]

\* No delivery has begun.
SendIdle == sends = [phase |-> "idle", st |-> << >>, sent_count |-> 0]

\* No run has files on disk.
NoFiles == disk = [r \in Runs |-> [b \in Backends |-> {}]]

\* One request against full mailboxes.
Init ==
    /\ InitWith(1, EmailTypes \X Counts, MaxTime, MaxMail, 0..MaxDate)
    /\ PoolIdle
    /\ ParseIdle /\ NoDocuments
    /\ MatchIdle
    /\ SendIdle /\ NoFiles

\* Concurrent requests against small mailboxes.
InitFlight ==
    /\ InitWith(NumRuns, {"", "gmail"} \X (1..FlightCount), TickStep, FlightMail,
                1..FlightCount)
    /\ PoolIdle
    /\ ParseIdle /\ NoDocuments
    /\ MatchIdle
    /\ SendIdle /\ NoFiles

\* ------------------------------------------------------------------- clock
Tick ==
    /\ now + TickStep <= horizon
    /\ now' = now + TickStep
    /\ UNCHANGED <<TASK_CACHE, arrivals, envVars, auxVars, poolVars, pc, req, reply, available, temp_dirs,
                   task_control, task, sendVars, finishes>>

HasResult_Always(task_data) == TRUE

\* task_data.get("has_result", False)
HasResult(task_data) == task_data.has_result

\* ------------------------------------------------ single-flight acquisition
\* fetch_combined_receipts up to the end of the first cache_lock block.  Request
\* slots are taken in index order (the slots are interchangeable).
Acquire(r, email_type, count) ==
    /\ pc[r] = "idle"
    /\ IF r = 1 THEN TRUE ELSE pc[r - 1] # "idle"
    /\ arrivals > 0
    /\ <<email_type, count>> \in offered
    /\ arrivals' = arrivals - 1
    /\ req' = [req EXCEPT ![r] = [email_type |-> email_type, count |-> count]]
    /\ task_control' = [task_control EXCEPT ![r] = TaskControl]
    /\ LET task_hash == generate_task_hash(Payer, Payee, count, email_type)
           swept == clean_expired_cache(TASK_CACHE, now)
           present == task_hash \in DOMAIN swept
       IN  IF present /\ swept[task_hash].status = "processing"
           THEN /\ TASK_CACHE' = swept
                /\ reply' = [reply EXCEPT ![r] = "AlreadyProcessing"]
                /\ pc' = [pc EXCEPT ![r] = "done"]
           ELSE IF present /\ swept[task_hash].status = "completed"
                           /\ HasResult(swept[task_hash])
           THEN /\ TASK_CACHE' = swept
                /\ reply' = [reply EXCEPT ![r] = "CachedFresh"]
                /\ pc' = [pc EXCEPT ![r] = "done"]
           ELSE /\ TASK_CACHE' = Put(swept, task_hash,
                                     CacheEntry("processing", now, FALSE))
                /\ reply' = reply
                /\ pc' = [pc EXCEPT ![r] = "creds"]
    /\ UNCHANGED <<now, envVars, auxVars, poolVars, available, temp_dirs, task, sendVars,
                   finishes>>

\* --------------------------------------------------------- connection pools
PoolStore(pool, key, handle, t) ==
    [connections |-> Put(pool.connections, key, handle),
     last_used |-> Put(pool.last_used, key, t)]

\* if key in pool['connections']: del pool['connections'][key]; del pool['last_used'][key]
PoolRemove(pool, key) ==
    IF key \in DOMAIN pool.connections
    THEN [connections |-> Del(pool.connections, key),
          last_used |-> Del(pool.last_used, key)]
    ELSE pool

\* The ways one call of get_gmail_service can end: a service is built, the token
\* refresh fails (RefreshError), or another error is raised (HttpError on the
\* last attempt, or any exception the two handlers do not catch).
GmailOutcomes == {"ok", "refresh_error", "error"}

\* get_gmail_service(credential_type): the effect on the credential table and
\* the pool.  Without a credential row initialize_credentials raises ValueError.
\* After a RefreshError the row is deleted, so the next attempt raises as well.
get_gmail_service(outcome) ==
    /\ outcome = "ok" => gmail_creds
    /\ outcome = "refresh_error" => gmail_creds
    /\ IF outcome = "ok"
       THEN /\ built' = [built EXCEPT !["gmail"] = @ + 1]
            /\ GMAIL_SERVICE_POOL' =
                   PoolStore(GMAIL_SERVICE_POOL, "pay", built["gmail"] + 1, now)
            /\ gmail_creds' = gmail_creds
       ELSE IF outcome = "refresh_error"
       THEN /\ gmail_creds' = FALSE
            /\ GMAIL_SERVICE_POOL' = PoolRemove(GMAIL_SERVICE_POOL, "pay")
            /\ built' = built
       ELSE UNCHANGED <<built, GMAIL_SERVICE_POOL, gmail_creds>>

\* connect_fastmail_imap: a connection is made and stored, or every attempt
\* failed and the function raises.  Without a credential row each attempt
\* raises ValueError, which the retry loop catches.
connect_fastmail_imap(ok) ==
    /\ ok => fastmail_creds
    /\ IF ok
       THEN /\ built' = [built EXCEPT !["fastmail"] = @ + 1]
            /\ FASTMAIL_CONN_POOL' =
                   PoolStore(FASTMAIL_CONN_POOL, "fastmail", built["fastmail"] + 1, now)
       ELSE UNCHANGED <<built, FASTMAIL_CONN_POOL>>

\* ------------------------------------------------------------- coordinator
Finish_WithResult(cache, task_hash, t, has_result) ==
    Put(cache, task_hash, CacheEntry("completed", t, TRUE))

Finish(cache, task_hash, t, has_result) ==
    Put(cache, task_hash, CacheEntry("completed", t, has_result))

\* Which backend tasks fetch_combined_receipts appends to `tasks`.
Launches(r, b) ==
    /\ available[r][b]
    /\ req[r].email_type = "" \/ Lower(req[r].email_type) = b

\* available = await check_available_credentials(), the choice of the email
\* sources and create_temp_dirs.  check_available_credentials builds a Gmail
\* service when a credential row exists and swallows every exception of it.
CheckCredentials(r) ==
    /\ pc[r] = "creds"
    /\ \E outcome \in GmailOutcomes, dirs_ok \in BOOLEAN :
        LET gmail == gmail_creds
            fastmail == fastmail_creds
            named == Lower(req[r].email_type)
            refused == /\ req[r].email_type # ""
                       /\ ~(named = "gmail" /\ gmail)
                       /\ ~(named = "fastmail" /\ fastmail)
            prefixes == IF req[r].email_type # ""
                        THEN ~refused
                        ELSE gmail \/ fastmail
        IN  /\ IF gmail
               THEN get_gmail_service(outcome)
               ELSE /\ outcome = "error"
                    /\ UNCHANGED <<built, GMAIL_SERVICE_POOL, gmail_creds>>
            /\ available' = [available EXCEPT ![r] = [gmail |-> gmail, fastmail |-> fastmail]]
            /\ IF refused
               THEN \* return await event.reply(...): the cache entry is not touched
                    /\ dirs_ok
                    /\ reply' = [reply EXCEPT ![r] = "NamedNoCredentials"]
                    /\ pc' = [pc EXCEPT ![r] = "done"]
                    /\ UNCHANGED <<TASK_CACHE, temp_dirs, finishes>>
               ELSE IF prefixes /\ ~dirs_ok
               THEN \* create_temp_dirs raises: the outer except clause
                    /\ IF TaskHash(r) \in DOMAIN TASK_CACHE
                       THEN /\ TASK_CACHE' = Finish(TASK_CACHE, TaskHash(r), now, FALSE)
                            /\ finishes' = [finishes EXCEPT ![r] = @ + 1]
                       ELSE UNCHANGED <<TASK_CACHE, finishes>>
                    /\ reply' = [reply EXCEPT ![r] = "OuterError"]
                    /\ pc' = [pc EXCEPT ![r] = "done"]
                    /\ temp_dirs' = temp_dirs
               ELSE /\ prefixes \/ dirs_ok
                    /\ temp_dirs' = [temp_dirs EXCEPT ![r] = prefixes]
                    /\ pc' = [pc EXCEPT ![r] = "launch"]
                    /\ UNCHANGED <<TASK_CACHE, reply, finishes>>
    /\ UNCHANGED <<now, arrivals, offered, horizon, dates, inbox, auxVars, fastmail_creds,
                   FASTMAIL_CONN_POOL, closed, req, task_control, task, sendVars>>

\* fetch_gmail / fetch_fastmail up to its first await: the TaskControl of the
\* task and its check_termination watcher exist.
StartTask == [NoTask EXCEPT !.pc = "connect", !.watcher = TRUE]

\* The task list is built and handed to asyncio.gather; without a task the run
\* answers that no credentials are configured and completes its entry.
Launch(r) ==
    /\ pc[r] = "launch"
    /\ IF \E b \in Backends : Launches(r, b)
       THEN /\ task' = [task EXCEPT ![r] =
                          [b \in Backends |-> IF Launches(r, b) THEN StartTask ELSE NoTask]]
            /\ pc' = [pc EXCEPT ![r] = "gather"]
            /\ UNCHANGED <<TASK_CACHE, reply, finishes>>
       ELSE /\ reply' = [reply EXCEPT ![r] = "NoCredentials"]
            /\ TASK_CACHE' = Finish(TASK_CACHE, TaskHash(r), now, FALSE)
            /\ finishes' = [finishes EXCEPT ![r] = @ + 1]
            /\ pc' = [pc EXCEPT ![r] = "done"]
            /\ task' = task
    /\ UNCHANGED <<now, arrivals, envVars, auxVars, poolVars, req, available, temp_dirs,
                   task_control, sendVars>>

\* ------------------------------------------------------------ backend scans
\* process_pdf_attachment makes sure out_dir exists and writes the PDF and the
\* PNG of a candidate into it; the files of a matching candidate are the ones a
\* record names.
process_pdf_attachment(d, r, b, n, c) ==
    IF c.match THEN [d EXCEPT ![r][b] = @ \cup {n}] ELSE d

\* cleanup_temp_dirs: shutil.rmtree on every directory of the run.
cleanup_temp_dirs(d, r) == [d EXCEPT ![r] = [b \in Backends |-> {}]]

\* What a scan finds out about one candidate message: whether its attachment
\* parses and matches the payer/payee filters, and the kind of its Date header
\* (0: missing or unparsable; d > 0: a parsable date with a time zone).
Candidates ==
    {[match |-> FALSE, date |-> 0]} \cup {[match |-> TRUE, date |-> d] : d \in dates}

ItemsOf_All(b, scanned) ==
    [j \in 1..Len(scanned) |-> [src |-> b, n |-> j, date |-> scanned[j].date]]

\* The tuples a scan has appended to `items`, in scan order.
ItemsOf(b, scanned) ==
    LET idxs == SelectSeq([k \in 1..Len(scanned) |-> k], LAMBDA k : scanned[k].match)
    IN  [j \in 1..Len(idxs) |-> [src |-> b, n |-> idxs[j], date |-> scanned[idxs[j]].date]]

Returned_WatcherLeft(t, why) ==
    [NoTask EXCEPT !.pc = "returned", !.exit = why, !.scanned = t.scanned,
                   !.watcher = t.watcher,
                   !.control = [terminate |-> TRUE,
                                matched_count |-> t.control.matched_count]]

\* The finally clause of fetch_gmail / fetch_fastmail, on a return and on a raise.
\* The locals of the scan (handle, cursor, page, flags) end with it; `scanned` stays as
\* the record of what the scan saw, the returned items being ItemsOf of it.
Returned(t, why) ==
    [NoTask EXCEPT !.pc = "returned", !.exit = why, !.scanned = t.scanned,
                   !.control = [terminate |-> TRUE,
                                matched_count |-> t.control.matched_count]]

Raised(t) ==
    [NoTask EXCEPT !.pc = "raised", !.exit = "error", !.scanned = t.scanned,
                   !.control = [terminate |-> TRUE,
                                matched_count |-> t.control.matched_count]]

Scanning(t) == t.pc \in {"list", "get", "search", "fetch"}
Terminal(t) == t.pc \in {"returned", "raised"}

taskFrame == <<now, TASK_CACHE, arrivals, pc, req, reply, available, temp_dirs, task_control,
               sendVars, finishes>>

\* check_termination: the watcher copies the coordinator's flag to the task's.
CheckTermination(r, b) ==
    /\ task[r][b].watcher
    /\ ~task[r][b].control.terminate
    /\ task' = [task EXCEPT ![r][b].control.terminate = task_control[r].terminate]
    /\ UNCHANGED <<taskFrame, envVars, auxVars, poolVars>>

\* get_payback_items_with_payee from the end of one network call to the start
\* of the next: the tests at the head of the for loop and of the while loop, and
\* the nextPageToken test.  The scan goes on to fetch a message ("get"), to
\* request a page ("list"), or returns.
GmailContinue(t) ==
    IF t.found_enough THEN Returned(t, "quota")
    ELSE IF t.idx < t.page_len
    THEN (IF t.control.terminate THEN Returned(t, "terminate")
          ELSE [t EXCEPT !.pc = "get"])
    ELSE IF ~t.token THEN Returned(t, "exhausted")
    ELSE IF t.control.terminate THEN Returned(t, "terminate")
    ELSE [t EXCEPT !.pc = "list"]

\* fetch_gmail: svc = await get_gmail_service('pay', event) ends; the scan
\* starts in a worker thread and sends its first page request.
GmailConnect(r) ==
    /\ task[r]["gmail"].pc = "connect"
    /\ \E outcome \in GmailOutcomes :
        /\ IF gmail_creds
           THEN get_gmail_service(outcome)
           ELSE /\ outcome = "error"
                /\ UNCHANGED <<built, GMAIL_SERVICE_POOL, gmail_creds>>
        /\ task' = [task EXCEPT ![r]["gmail"] =
                      IF outcome # "ok" THEN Raised(@)
                      ELSE IF @.control.terminate THEN Returned(@, "terminate")
                      ELSE [@ EXCEPT !.pc = "list", !.handle = built["gmail"] + 1]]
    /\ UNCHANGED <<taskFrame, offered, horizon, dates, inbox, auxVars, fastmail_creds,
                   FASTMAIL_CONN_POOL, closed>>

\* A page request ends.  The server returns at most maxResults message
\* references and may announce a further page; the request can raise.
GmailList(r) ==
    LET t == task[r]["gmail"]
        room == inbox["gmail"] - Len(t.scanned)
    IN  /\ t.pc = "list"
        /\ \E fails \in BOOLEAN, token \in BOOLEAN,
              n \in 0..Min(Min(GMAIL_MAX_RESULTS, GmailServerPage), room) :
            /\ fails => (n = 0 /\ ~token)
            /\ task' = [task EXCEPT ![r]["gmail"] =
                          IF fails THEN Raised(t)
                          ELSE IF n = 0 THEN Returned(t, "exhausted")
                          ELSE GmailContinue([t EXCEPT !.page_len = n, !.idx = 0,
                                                       !.token = token])]
        /\ UNCHANGED <<taskFrame, envVars, auxVars, poolVars>>

\* The work on one message ends (fetch, attachment, parse, match): a match is
\* counted and appended, every other candidate is skipped.
GmailGet(r) ==
    LET t == task[r]["gmail"]
        max_results == req[r].count
    IN  /\ t.pc = "get"
        /\ \E c \in Candidates :
            LET matched == t.control.matched_count + (IF c.match THEN 1 ELSE 0)
                enough == c.match /\ matched >= max_results
            IN /\ task' = [task EXCEPT ![r]["gmail"] =
                           GmailContinue(
                               [t EXCEPT !.scanned = Append(@, c),
                                         !.idx = @ + 1,
                                         !.control.matched_count = matched,
                                         !.found_enough = enough,
                                         !.control.terminate = @ \/ enough])]
               /\ disk' = process_pdf_attachment(disk, r, "gmail", Len(t.scanned) + 1, c)
        /\ UNCHANGED <<taskFrame, envVars, layerVars, poolVars>>

\* get_fastmail_pay_receipts from the end of one awaited call to the start of
\* the next: the tests at the head of the message loop, after it, and at the
\* head of the page loop.  The scan goes on to fetch a message or returns.
FastmailContinue(t, max_results) ==
    LET items == Len(ItemsOf("fastmail", t.scanned))
    IN  IF items >= max_results THEN Returned(t, "quota")
        ELSE IF t.idx >= t.page_len /\ t.i + FASTMAIL_PAGE_SIZE >= t.total
        THEN Returned(t, "exhausted")
        ELSE IF t.control.terminate THEN Returned(t, "terminate")
        ELSE IF t.idx < t.page_len THEN [t EXCEPT !.pc = "fetch"]
        ELSE [t EXCEPT !.pc = "fetch", !.i = @ + FASTMAIL_PAGE_SIZE, !.idx = 0,
                       !.page_len = Min(FASTMAIL_PAGE_SIZE,
                                        t.total - (t.i + FASTMAIL_PAGE_SIZE))]

\* fetch_fastmail: conn = await connect_fastmail_imap(event) ends; the scan
\* selects the folder and starts its search.
FastmailConnect(r) ==
    /\ task[r]["fastmail"].pc = "connect"
    /\ \E ok \in BOOLEAN :
        /\ connect_fastmail_imap(ok)
        /\ task' = [task EXCEPT ![r]["fastmail"] =
                      IF ok THEN [@ EXCEPT !.pc = "search",
                                           !.handle = built["fastmail"] + 1]
                      ELSE Raised(@)]
    /\ UNCHANGED <<taskFrame, envVars, auxVars, GMAIL_SERVICE_POOL, closed>>

\* The folder selection and the initial search end.  A failed selection or an
\* empty search returns the empty list.
FastmailSearch(r) ==
    LET t == task[r]["fastmail"]
        max_results == Min(req[r].count, FASTMAIL_MAX_RESULTS)
    IN  /\ t.pc = "search"
        /\ \E select_ok \in BOOLEAN, n \in 0..inbox["fastmail"] :
            /\ ~select_ok => n = 0
            /\ task' = [task EXCEPT ![r]["fastmail"] =
                          IF ~select_ok THEN Returned(t, "error")
                          ELSE IF n = 0 THEN Returned(t, "exhausted")
                          ELSE FastmailContinue(
                                   [t EXCEPT !.total = n, !.i = 0, !.idx = 0,
                                             !.page_len = Min(FASTMAIL_PAGE_SIZE, n)],
                                   max_results)]
        /\ UNCHANGED <<taskFrame, envVars, auxVars, poolVars>>

\* The fetch of one message ends and the message is worked on: a match is
\* counted and appended and sets the task's terminate flag.
FastmailFetch(r) ==
    LET t == task[r]["fastmail"]
        max_results == Min(req[r].count, FASTMAIL_MAX_RESULTS)
    IN  /\ t.pc = "fetch"
        /\ \E c \in Candidates :
            /\ task' = [task EXCEPT ![r]["fastmail"] =
                          FastmailContinue(
                              [t EXCEPT !.scanned = Append(@, c),
                                        !.idx = @ + 1,
                                        !.control.matched_count =
                                            @ + (IF c.match THEN 1 ELSE 0),
                                        !.control.terminate = @ \/ c.match],
                              max_results)]
            /\ disk' = process_pdf_attachment(disk, r, "fastmail", Len(t.scanned) + 1, c)
        /\ UNCHANGED <<taskFrame, envVars, layerVars, poolVars>>

\* ------------------------------------------------------- merge and delivery
\* parse_email_time gives datetime.min, which has no time zone, for a missing or
\* unparsable date and a zone-aware datetime otherwise; comparing the two kinds
\* raises TypeError, so list.sort raises as soon as both occur.
SortRaises(rs) ==
    \E i, j \in 1..Len(rs) : rs[i].date = 0 /\ rs[j].date > 0

\* results.sort(key=..., reverse=True): descending, equal keys keep their order.
SortByTime(rs) ==
    LET n == Len(rs)
        Rank(i) == Cardinality({j \in 1..n : rs[j].date > rs[i].date})
                   + Cardinality({j \in 1..(i - 1) : rs[j].date = rs[i].date}) + 1
    IN  [p \in 1..n |-> rs[CHOOSE i \in 1..n : Rank(i) = p]]

Truncate_NoCut(rs, count) == rs

\* results[:count]
Truncate(rs, count) == SubSeq(rs, 1, Min(count, Len(rs)))

Launched(r) == {b \in Backends : task[r][b].pc # "none"}

gatherFrame == <<now, arrivals, envVars, layerVars, poolVars, req, available, task_control, task>>

\* The except clause around the gather: the entry is completed without a
\* result, the requester is told of an error, the finally clause removes the
\* temporary directories.
InnerExcept(r) ==
    /\ TASK_CACHE' = Finish(TASK_CACHE, TaskHash(r), now, FALSE)
    /\ finishes' = [finishes EXCEPT ![r] = @ + 1]
    /\ reply' = [reply EXCEPT ![r] = "Error"]
    /\ temp_dirs' = [temp_dirs EXCEPT ![r] = FALSE]
    /\ disk' = cleanup_temp_dirs(disk, r)
    /\ pc' = [pc EXCEPT ![r] = "done"]

\* asyncio.gather(*tasks) hands the first exception of a task to the
\* coordinator at once; the other tasks are not cancelled and keep running.
GatherRaise(r) ==
    /\ pc[r] = "gather"
    /\ \E b \in Launched(r) : task[r][b].pc = "raised"
    /\ InnerExcept(r)
    /\ UNCHANGED <<gatherFrame, sendVars>>

\* Every task returned: the lists are concatenated in task order (Gmail first),
\* then sorted and cut to `count`.
GatherReturn(r) ==
    /\ pc[r] = "gather"
    /\ \A b \in Launched(r) : task[r][b].pc = "returned"
    /\ LET merged == (IF "gmail" \in Launched(r)
                      THEN ItemsOf("gmail", task[r]["gmail"].scanned) ELSE << >>)
                     \o (IF "fastmail" \in Launched(r)
                         THEN ItemsOf("fastmail", task[r]["fastmail"].scanned) ELSE << >>)
       IN  IF merged = << >>
           THEN /\ reply' = [reply EXCEPT ![r] = "NoMatch"]
                /\ TASK_CACHE' = Finish(TASK_CACHE, TaskHash(r), now, FALSE)
                /\ finishes' = [finishes EXCEPT ![r] = @ + 1]
                /\ temp_dirs' = [temp_dirs EXCEPT ![r] = FALSE]
                /\ disk' = cleanup_temp_dirs(disk, r)
                /\ pc' = [pc EXCEPT ![r] = "done"]
                /\ results' = results
           ELSE IF SortRaises(merged)
           THEN /\ InnerExcept(r)
                /\ results' = [results EXCEPT ![r] = merged]
           ELSE /\ results' = [results EXCEPT ![r] =
                                  Truncate(SortByTime(merged), req[r].count)]
                /\ pc' = [pc EXCEPT ![r] = "send"]
                /\ UNCHANGED <<TASK_CACHE, finishes, reply, temp_dirs, disk>>
    /\ UNCHANGED <<gatherFrame, delivered, sent_count>>

\* asyncio.gather over send_receipt for every record of `results`; a send that
\* raises is logged and a send that succeeds removes the files of its record.
\* Then the entry is completed and the finally clause removes the directories.
SendReceipts(r) ==
    /\ pc[r] = "send"
    /\ \E ok \in SUBSET (1..Len(results[r])) :
        /\ delivered' = [delivered EXCEPT ![r] = results[r]]
        /\ sent_count' = [sent_count EXCEPT ![r] = Cardinality(ok)]
    /\ TASK_CACHE' = Finish(TASK_CACHE, TaskHash(r), now, Len(results[r]) > 0)
    /\ finishes' = [finishes EXCEPT ![r] = @ + 1]
    /\ reply' = [reply EXCEPT ![r] = "Sent"]
    /\ temp_dirs' = [temp_dirs EXCEPT ![r] = FALSE]
    /\ disk' = cleanup_temp_dirs(disk, r)
    /\ pc' = [pc EXCEPT ![r] = "done"]
    /\ UNCHANGED <<gatherFrame, results>>

Next ==
    \/ Tick
    \/ \E r \in Runs, email_type \in EmailTypes, count \in Counts :
           Acquire(r, email_type, count)
    \/ \E r \in Runs : CheckCredentials(r)
    \/ \E r \in Runs : Launch(r)
    \/ \E r \in Runs, b \in Backends : CheckTermination(r, b)
    \/ \E r \in Runs : GmailConnect(r)
    \/ \E r \in Runs : GmailList(r)
    \/ \E r \in Runs : GmailGet(r)
    \/ \E r \in Runs : FastmailConnect(r)
    \/ \E r \in Runs : FastmailSearch(r)
    \/ \E r \in Runs : FastmailFetch(r)
    \/ \E r \in Runs : GatherRaise(r)
    \/ \E r \in Runs : GatherReturn(r)
    \/ \E r \in Runs : SendReceipts(r)

Spec == Init /\ [][Next]_vars

SpecFlight == InitFlight /\ [][Next]_vars

\* ------------------------------------------------- handle construction, sweep
\* The pool layer on its own: callers construct and use handles while the clock
\* runs and the background sweep passes; no receipt request is under way.
InitPool ==
    /\ InitWith(0, {}, PoolHorizon, 0, {})
    /\ PoolIdle
    /\ ParseIdle /\ NoDocuments
    /\ MatchIdle
    /\ SendIdle /\ NoFiles

PoolTick ==
    /\ now + PoolTickStep <= horizon
    /\ now' = now + PoolTickStep
    /\ UNCHANGED <<coordVars, gmail_creds, fastmail_creds, poolVars, auxVars>>

\* A caller enters get_gmail_service / connect_fastmail_imap: retry_delay = 1
\* and the for loop starts with attempt 0.
StartCall(b) ==
    /\ call[b].pc \in {"idle", "used", "raised"}
    /\ call[b].n < MaxCalls
    /\ call' = [call EXCEPT ![b] =
                   [IdleCall EXCEPT !.pc = "attempt", !.n = call[b].n + 1,
                                    !.retry_delay = INITIAL_RETRY_DELAY]]
    /\ UNCHANGED <<now, coordVars, gmail_creds, fastmail_creds, poolVars,
                   background, sweep_at, passes>>

\* The failure kinds of one attempt.  Gmail: RefreshError (the refresh token is
\* expired or revoked), HttpError, any other exception (a network error during
\* the refresh, a database error), ValueError (no client secret configured).
\* FastMail: ValueError (no credential row), a rejected login, a network error.
AuthFailures == {"RefreshError", "LoginError"}
TransientFailures == {"HttpError", "NetworkError"}

\* if attempt < max_retries - 1: await asyncio.sleep(retry_delay); retry_delay *= 2
\* and the loop goes on; otherwise the call raises.
RetryOrRaise(c, failure) ==
    IF c.attempt < MAX_RETRIES - 1
    THEN [c EXCEPT !.failures = Append(@, failure),
                   !.slept = Append(@, c.retry_delay),
                   !.retry_delay = @ * 2,
                   !.attempt = @ + 1]
    ELSE [c EXCEPT !.failures = Append(@, failure), !.pc = "raised"]

\* An exception no handler of the loop catches leaves the call at once.
Propagate(c, failure) ==
    [c EXCEPT !.failures = Append(@, failure), !.pc = "raised"]

\* One iteration of the for loop of get_gmail_service.
GmailAttempt ==
    LET c == call["gmail"]
    IN  /\ c.pc = "attempt"
        /\ \E outcome \in {"ok", "RefreshError", "HttpError", "OtherError"} :
            IF ~gmail_creds
            THEN \* no row: initialize_credentials raises ValueError
                 /\ outcome = "OtherError"
                 /\ call' = [call EXCEPT !["gmail"] = Propagate(c, "ValueError")]
                 /\ UNCHANGED <<gmail_creds, GMAIL_SERVICE_POOL, built>>
            ELSE IF outcome = "ok"
            THEN /\ built' = [built EXCEPT !["gmail"] = @ + 1]
                 /\ GMAIL_SERVICE_POOL' =
                        PoolStore(GMAIL_SERVICE_POOL, "pay", built["gmail"] + 1, now)
                 /\ call' = [call EXCEPT !["gmail"] =
                                [c EXCEPT !.pc = "returned",
                                          !.handle = built["gmail"] + 1]]
                 /\ gmail_creds' = gmail_creds
            ELSE IF outcome = "RefreshError"
            THEN \* delete_google_credentials, the reply, then the retry test
                 /\ gmail_creds' = FALSE
                 /\ GMAIL_SERVICE_POOL' = PoolRemove(GMAIL_SERVICE_POOL, "pay")
                 /\ call' = [call EXCEPT !["gmail"] = RetryOrRaise(c, "RefreshError")]
                 /\ built' = built
            ELSE IF outcome = "HttpError"
            THEN /\ call' = [call EXCEPT !["gmail"] = RetryOrRaise(c, "HttpError")]
                 /\ UNCHANGED <<gmail_creds, GMAIL_SERVICE_POOL, built>>
            ELSE /\ call' = [call EXCEPT !["gmail"] = Propagate(c, "OtherError")]
                 /\ UNCHANGED <<gmail_creds, GMAIL_SERVICE_POOL, built>>
        /\ UNCHANGED <<now, coordVars, fastmail_creds, FASTMAIL_CONN_POOL, closed,
                       background, sweep_at, passes>>

\* One iteration of the for loop of connect_fastmail_imap: `except Exception`
\* catches every failure of the attempt.
FastmailAttempt ==
    LET c == call["fastmail"]
    IN  /\ c.pc = "attempt"
        /\ \E outcome \in {"ok", "LoginError", "NetworkError"} :
            IF ~fastmail_creds
            THEN /\ outcome = "ok"
                 /\ call' = [call EXCEPT !["fastmail"] = RetryOrRaise(c, "ValueError")]
                 /\ UNCHANGED <<FASTMAIL_CONN_POOL, built>>
            ELSE IF outcome = "ok"
            THEN /\ built' = [built EXCEPT !["fastmail"] = @ + 1]
                 /\ FASTMAIL_CONN_POOL' =
                        PoolStore(FASTMAIL_CONN_POOL, "fastmail",
                                  built["fastmail"] + 1, now)
                 /\ call' = [call EXCEPT !["fastmail"] =
                                [c EXCEPT !.pc = "returned",
                                          !.handle = built["fastmail"] + 1]]
            ELSE /\ call' = [call EXCEPT !["fastmail"] = RetryOrRaise(c, outcome)]
                 /\ UNCHANGED <<FASTMAIL_CONN_POOL, built>>
        /\ UNCHANGED <<now, coordVars, gmail_creds, fastmail_creds,
                       GMAIL_SERVICE_POOL, closed, background, sweep_at, passes>>

\* A request made with the service get_gmail_service returned ends (list or get
\* of get_payback_items_with_payee).  No outcome touches the pool: an exception
\* of a get is logged, an exception of a list leaves the scan.
GmailUse ==
    /\ call["gmail"].pc = "returned"
    /\ \E outcome \in {"ok", "AuthError", "OtherError"} :
           call' = [call EXCEPT !["gmail"] = [@ EXCEPT !.pc = "used", !.used = outcome]]
    /\ UNCHANGED <<now, coordVars, gmail_creds, fastmail_creds, poolVars,
                   background, sweep_at, passes>>

\* _fetch_mail on the connection connect_fastmail_imap returned: on
\* imaplib.IMAP4.abort or imaplib.IMAP4.error the pool entry is deleted.
FastmailUse ==
    /\ call["fastmail"].pc = "returned"
    /\ \E outcome \in {"ok", "AuthError", "OtherError"} :
        /\ call' = [call EXCEPT !["fastmail"] = [@ EXCEPT !.pc = "used", !.used = outcome]]
        /\ FASTMAIL_CONN_POOL' =
               IF outcome = "ok" THEN FASTMAIL_CONN_POOL
               ELSE PoolRemove(FASTMAIL_CONN_POOL, "fastmail")
    /\ UNCHANGED <<now, coordVars, gmail_creds, fastmail_creds, GMAIL_SERVICE_POOL,
                   built, closed, background, sweep_at, passes>>

\* set_fastmail_credentials by an administrator: the row is written, the pooled
\* connection is closed (an exception of close() is swallowed) and removed.
set_fastmail_credentials ==
    /\ ~fastmail_creds
    /\ fastmail_creds' = TRUE
    /\ \E close_ok \in BOOLEAN :
        IF "fastmail" \in DOMAIN FASTMAIL_CONN_POOL.connections
        THEN /\ closed' = IF close_ok
                          THEN [closed EXCEPT !["fastmail"] =
                                   @ \cup {FASTMAIL_CONN_POOL.connections["fastmail"]}]
                          ELSE closed
             /\ FASTMAIL_CONN_POOL' = PoolRemove(FASTMAIL_CONN_POOL, "fastmail")
        ELSE /\ close_ok
             /\ UNCHANGED <<closed, FASTMAIL_CONN_POOL>>
    /\ UNCHANGED <<now, coordVars, gmail_creds, GMAIL_SERVICE_POOL, built, auxVars>>

\* main() creates the task cleanup_stale_connections (start_background_tasks,
\* which would create the two periodic_cleanup tasks, is called nowhere).
Main ==
    /\ background = {}
    /\ background' = {"cleanup_stale_connections"}
    /\ sweep_at' = now
    /\ UNCHANGED <<now, coordVars, gmail_creds, fastmail_creds, poolVars, call, passes>>

\* idle_time > pool['timeout'] for the key of a pool, with last_used.get(key, 0).
Stale(pool, key, t) ==
    /\ key \in DOMAIN pool.connections
    /\ t - (IF key \in DOMAIN pool.last_used THEN pool.last_used[key] ELSE 0)
          > POOL_TIMEOUT

\* One pass of the while loop of cleanup_stale_connections, then sleep(1800).
\* A stale Gmail entry is deleted; a stale FastMail connection is closed and
\* then deleted, and when close() raises the entry stays.
cleanup_stale_connections ==
    /\ "cleanup_stale_connections" \in background
    /\ now >= sweep_at
    /\ passes < MaxPasses
    /\ GMAIL_SERVICE_POOL' =
           IF Stale(GMAIL_SERVICE_POOL, "pay", now)
           THEN PoolRemove(GMAIL_SERVICE_POOL, "pay")
           ELSE GMAIL_SERVICE_POOL
    /\ \E close_ok \in BOOLEAN :
        IF Stale(FASTMAIL_CONN_POOL, "fastmail", now)
        THEN IF close_ok
             THEN /\ closed' = [closed EXCEPT !["fastmail"] =
                                   @ \cup {FASTMAIL_CONN_POOL.connections["fastmail"]}]
                  /\ FASTMAIL_CONN_POOL' = PoolRemove(FASTMAIL_CONN_POOL, "fastmail")
             ELSE UNCHANGED <<closed, FASTMAIL_CONN_POOL>>
        ELSE /\ close_ok
             /\ UNCHANGED <<closed, FASTMAIL_CONN_POOL>>
    /\ sweep_at' = now + SWEEP_PERIOD
    /\ passes' = passes + 1
    /\ UNCHANGED <<now, coordVars, gmail_creds, fastmail_creds, built, call, background>>

NextPool ==
    \/ PoolTick
    \/ \E b \in Backends : StartCall(b)
    \/ GmailAttempt
    \/ FastmailAttempt
    \/ GmailUse
    \/ FastmailUse
    \/ set_fastmail_credentials
    \/ Main
    \/ cleanup_stale_connections

SpecPool == InitPool /\ [][NextPool]_vars

\* ------------------------------------------- invalidation in a worker thread
\* _fetch_mail runs in a worker thread (asyncio.to_thread), so the statements of
\* its except handler interleave with the coroutines of the event loop: the
\* membership test, del connections['fastmail'] and del last_used['fastmail']
\* are three steps.  The coroutines themselves do not await between their own
\* test and deletions, and stay one step each.
FetchMail ==
    /\ call["fastmail"].pc = "returned"
    /\ \E outcome \in {"ok", "AuthError"} :
           call' = [call EXCEPT !["fastmail"] =
                       IF outcome = "ok"
                       THEN [@ EXCEPT !.pc = "used", !.used = "ok"]
                       ELSE [@ EXCEPT !.pc = "except", !.used = outcome]]
    /\ UNCHANGED <<now, coordVars, gmail_creds, fastmail_creds, poolVars,
                   background, sweep_at, passes>>

\* if 'fastmail' in FASTMAIL_CONN_POOL['connections']:
FetchTest ==
    /\ call["fastmail"].pc = "except"
    /\ call' = [call EXCEPT !["fastmail"].pc =
                   IF "fastmail" \in DOMAIN FASTMAIL_CONN_POOL.connections
                   THEN "del_connections" ELSE "used"]
    /\ UNCHANGED <<now, coordVars, gmail_creds, fastmail_creds, poolVars,
                   background, sweep_at, passes>>

\* del FASTMAIL_CONN_POOL['connections']['fastmail']: KeyError when the key is
\* gone, which leaves _fetch_mail.
FetchDelConnections ==
    /\ call["fastmail"].pc = "del_connections"
    /\ IF "fastmail" \in DOMAIN FASTMAIL_CONN_POOL.connections
       THEN /\ FASTMAIL_CONN_POOL' =
                   [FASTMAIL_CONN_POOL EXCEPT !.connections = Del(@, "fastmail")]
            /\ call' = [call EXCEPT !["fastmail"].pc = "del_last_used"]
       ELSE /\ FASTMAIL_CONN_POOL' = FASTMAIL_CONN_POOL
            /\ call' = [call EXCEPT !["fastmail"].pc = "used",
                                    !["fastmail"].used = "KeyError"]
    /\ UNCHANGED <<now, coordVars, gmail_creds, fastmail_creds, GMAIL_SERVICE_POOL,
                   built, closed, background, sweep_at, passes>>

\* del FASTMAIL_CONN_POOL['last_used']['fastmail']
FetchDelLastUsed ==
    /\ call["fastmail"].pc = "del_last_used"
    /\ IF "fastmail" \in DOMAIN FASTMAIL_CONN_POOL.last_used
       THEN /\ FASTMAIL_CONN_POOL' =
                   [FASTMAIL_CONN_POOL EXCEPT !.last_used = Del(@, "fastmail")]
            /\ call' = [call EXCEPT !["fastmail"].pc = "used"]
       ELSE /\ FASTMAIL_CONN_POOL' = FASTMAIL_CONN_POOL
            /\ call' = [call EXCEPT !["fastmail"].pc = "used",
                                    !["fastmail"].used = "KeyError"]
    /\ UNCHANGED <<now, coordVars, gmail_creds, fastmail_creds, GMAIL_SERVICE_POOL,
                   built, closed, background, sweep_at, passes>>

NextRace ==
    \/ PoolTick
    \/ \E b \in Backends : StartCall(b)
    \/ GmailAttempt
    \/ FastmailAttempt
    \/ GmailUse
    \/ FetchMail
    \/ FetchTest
    \/ FetchDelConnections
    \/ FetchDelLastUsed
    \/ set_fastmail_credentials
    \/ Main
    \/ cleanup_stale_connections

SpecRace == InitPool /\ [][NextRace]_vars

\* ---------------------------------------------------------------- parse cache
\* The service after main() has started its background tasks.
ServiceRunning ==
    /\ call = [b \in Backends |-> IdleCall]
    /\ background = {"cleanup_stale_connections"}
    /\ sweep_at = 0
    /\ passes = 0

InitParse ==
    /\ InitWith(0, {}, ParseHorizon, 0, {})
    /\ ServiceRunning
    /\ ParseIdle
    /\ MatchIdle
    /\ SendIdle /\ NoFiles

ParseTick ==
    /\ now + ParseTickStep <= horizon
    /\ now' = now + ParseTickStep
    /\ UNCHANGED <<serviceVars, parseVars, probe>>

\* A file is written, replaced or removed (attachments are saved into the
\* temporary directory of a run, which the run removes at its end).
WriteDocument(p, d) ==
    /\ documents[p] # d
    /\ documents' = [documents EXCEPT ![p] = d]
    /\ UNCHANGED <<now, serviceVars, pdf_text_cache, extractions, returned, parsing,
                   workers, probe>>

\* find(pattern) or the placeholder: a field the text does not carry.
OrUnknown(name) == IF name = << >> THEN UNKNOWN ELSE name

\* The fields parse_pdf_receipt_info extracts from the text of the first page
\* (of its eleven fields the two names are modelled).
ParseFields(doc) == [payer |-> OrUnknown(doc.payer), payee |-> OrUnknown(doc.payee)]

CacheHit_Inclusive(cache, path, t) ==
    /\ path \in DOMAIN cache
    /\ t - cache[path].timestamp <= PDF_CACHE_TTL

\* cache_entry and (time.time() - cache_entry['timestamp'] < 86400)
CacheHit(cache, path, t) ==
    /\ path \in DOMAIN cache
    /\ t - cache[path].timestamp < PDF_CACHE_TTL

\* One call of parse_pdf_receipt_info(pdf_path) made while no other call is in
\* progress: the raw text it caches first is overwritten by the tuple before it
\* returns.
parse_pdf_receipt_info(pdf_path) ==
    /\ parsing.calls < MaxParses
    /\ IF CacheHit(pdf_text_cache, pdf_path, now)
       THEN /\ returned' = [returned EXCEPT ![pdf_path] =
                               TupleResult(pdf_text_cache[pdf_path].data)]
            /\ parsing' = [calls |-> parsing.calls + 1, path |-> pdf_path, hit |-> TRUE]
            /\ UNCHANGED <<pdf_text_cache, extractions>>
       ELSE IF documents[pdf_path].state # "ok"
       THEN \* FileNotFoundError, or fitz cannot open the file or finds no page
            /\ returned' = [returned EXCEPT ![pdf_path] = RaisedResult]
            /\ parsing' = [calls |-> parsing.calls + 1, path |-> pdf_path, hit |-> FALSE]
            /\ UNCHANGED <<pdf_text_cache, extractions>>
       ELSE LET result == ParseFields(documents[pdf_path])
            IN  /\ extractions' = [extractions EXCEPT ![pdf_path] = @ + 1]
                /\ pdf_text_cache' =
                       Put(pdf_text_cache, pdf_path, [data |-> result, timestamp |-> now])
                /\ returned' = [returned EXCEPT ![pdf_path] = TupleResult(result)]
                /\ parsing' = [calls |-> parsing.calls + 1, path |-> pdf_path,
                               hit |-> FALSE]
    /\ UNCHANGED <<now, serviceVars, documents, workers, probe>>

\* periodic_cleanup_pdf_cache is no action: only start_background_tasks creates
\* it, and nothing calls start_background_tasks.
NextParse ==
    \/ ParseTick
    \/ \E p \in Paths, d \in Documents : WriteDocument(p, d)
    \/ \E p \in Paths : parse_pdf_receipt_info(p)

SpecParse == InitParse /\ [][NextParse]_vars

\* ------------------------------------------------- attachments of one scan
\* The messages of one scan are worked on by threads (get_payback_items runs
\* process_attachment and parse_payback_info of up to five messages at a time
\* with asyncio.to_thread; get_payback_items_with_payee works on them one after
\* the other in one thread).  All of them save into the same out_dir, under
\* the file name the attachment carries.
Receipts == {d \in Documents : d.state = "ok"}

\* The directory of the scan is new and empty.
InitAttach ==
    /\ InitWith(0, {}, 0, 0, {})
    /\ ServiceRunning
    /\ ParseIdle /\ NoDocuments
    /\ MatchIdle
    /\ SendIdle /\ NoFiles

\* process_pdf_attachment(pdf_bytes, out_dir, source, original_filename): when
\* the PDF and the image of that name exist, they are returned as they are
\* ("重用"); otherwise the bytes are written under that name.
SaveAttachment(w, fn, pdf_bytes) ==
    /\ workers[w].pc = "idle"
    /\ workers[w].n < MaxMessages
    /\ LET exists == documents[fn].state # "absent"
       IN  /\ documents' = IF exists THEN documents
                                    ELSE [documents EXCEPT ![fn] = pdf_bytes]
           /\ workers' = [workers EXCEPT ![w] =
                              [pc |-> "saved", n |-> @.n + 1, path |-> fn,
                               msg |-> pdf_bytes, reused |-> exists,
                               text |-> AbsentFile, got |-> NoResult]]
    /\ UNCHANGED <<now, serviceVars, pdf_text_cache, extractions, returned, parsing,
                   probe>>

\* What the cache holds between the two stores of a parse: the text of the page.
RawText(doc) == [raw |-> doc]

\* What a caller gets when the cache answers: the 'data' of the entry, be it
\* the tuple or the text.
FromCache(data) ==
    IF "raw" \in DOMAIN data
    THEN [kind |-> "text", payer |-> << >>, payee |-> << >>]
    ELSE TupleResult(data)

\* parse_pdf_receipt_info up to its first store: the cache check, and on a miss
\* the extraction of the text and _pdf_text_cache[pdf_path] = {'data': text}.
ParseCall(w) ==
    LET pdf_path == workers[w].path
    IN  /\ workers[w].pc = "saved"
        /\ IF CacheHit(pdf_text_cache, pdf_path, now)
           THEN /\ workers' = [workers EXCEPT ![w].pc = "idle",
                                              ![w].got = FromCache(pdf_text_cache[pdf_path].data)]
                /\ UNCHANGED <<pdf_text_cache, extractions>>
           ELSE /\ extractions' = [extractions EXCEPT ![pdf_path] = @ + 1]
                /\ pdf_text_cache' =
                       Put(pdf_text_cache, pdf_path,
                           [data |-> RawText(documents[pdf_path]), timestamp |-> now])
                /\ workers' = [workers EXCEPT ![w].pc = "extracted",
                                              ![w].text = documents[pdf_path]]
        /\ UNCHANGED <<now, serviceVars, documents, returned, parsing, probe>>

\* parse_pdf_receipt_info from the field extraction to its return: the second
\* store, _pdf_text_cache[pdf_path] = {'data': result}, and return result.
ParseReturn(w) ==
    LET result == ParseFields(workers[w].text)
    IN  /\ workers[w].pc = "extracted"
        /\ pdf_text_cache' =
               Put(pdf_text_cache, workers[w].path, [data |-> result, timestamp |-> now])
        /\ workers' = [workers EXCEPT ![w].pc = "idle", ![w].got = TupleResult(result)]
        /\ UNCHANGED <<now, serviceVars, documents, extractions, returned, parsing, probe>>

NextAttach ==
    \/ \E w \in Workers, fn \in Paths, pdf_bytes \in Receipts :
           SaveAttachment(w, fn, pdf_bytes)
    \/ \E w \in Workers : ParseCall(w)
    \/ \E w \in Workers : ParseReturn(w)

SpecAttach == InitAttach /\ [][NextAttach]_vars

\* -------------------------------------------------------------------- matcher
Alphabet == {"a", "A", "b"}
Strings == UNION {[1..n -> Alphabet] : n \in 0..MaxNameLen}

\* The payer and payee filters a scan is probed with: none, plain names, and
\* names that share characters with the placeholder (all of them pass
\* is_valid_name and the command patterns).
Filters == {<< >>, <<"a">>, <<"b">>, <<"A", "b">>, UNKNOWN, <<"wei">>}

\* str.lower() on one character.
LowerChar(c) ==
    CASE c = "A" -> "a"
      [] c = "G" -> "g"
      [] c = "M" -> "m"
      [] OTHER -> c
LowerStr(str) == [i \in 1..Len(str) |-> LowerChar(str[i])]

\* Python's `a in b` on strings.
In(a, b) ==
    \E off \in 0..(Len(b) - Len(a)) : \A i \in 1..Len(a) : b[off + i] = a[i]

\* dp[i][j] of longest_common_substring: the length of the common run that
\* ends at s1[i-1] and s2[j-1].
RECURSIVE dp(_, _, _, _)
dp(s1, s2, i, j) ==
    IF i = 0 \/ j = 0 THEN 0
    ELSE IF s1[i] = s2[j] THEN dp(s1, s2, i - 1, j - 1) + 1
    ELSE 0

longest_common_substring(s1, s2) ==
    LET cells == {dp(s1, s2, i, j) : i \in 1..Len(s1), j \in 1..Len(s2)} \cup {0}
    IN  CHOOSE m \in cells : \A c \in cells : c <= m

fuzzy_match_OneWay(target, text) ==
    IF target = << >> \/ text = << >> THEN FALSE
    ELSE LET t == LowerStr(target)
             x == LowerStr(text)
             lcs_length == longest_common_substring(t, x)
             max_length == IF Len(t) >= Len(x) THEN Len(t) ELSE Len(x)
         IN  \/ In(t, x)
             \/ (max_length > 0 /\ 10 * lcs_length >= 6 * max_length)

fuzzy_match_Strict(target, text) ==
    IF target = << >> \/ text = << >> THEN FALSE
    ELSE LET t == LowerStr(target)
             x == LowerStr(text)
             lcs_length == longest_common_substring(t, x)
             max_length == IF Len(t) >= Len(x) THEN Len(t) ELSE Len(x)
         IN  \/ In(t, x)
             \/ In(x, t)
             \/ (max_length > 0 /\ 10 * lcs_length > 6 * max_length)

\* fuzzy_match(target, text, threshold=0.6); lcs_length / max_length >= 0.6 is
\* taken in integers, where it is exact for the lengths of the model.
fuzzy_match(target, text) ==
    IF target = << >> \/ text = << >> THEN FALSE
    ELSE LET t == LowerStr(target)
             x == LowerStr(text)
             lcs_length == longest_common_substring(t, x)
             max_length == IF Len(t) >= Len(x) THEN Len(t) ELSE Len(x)
         IN  \/ In(t, x)
             \/ In(x, t)
             \/ (max_length > 0 /\ 10 * lcs_length >= 6 * max_length)

parse_payback_info_Unknown(doc) ==
    IF doc.state = "ok" THEN ParseFields(doc)
    ELSE [payer |-> UNKNOWN, payee |-> UNKNOWN]

\* parse_payback_info / parse_fastmail_payback_info: the parsed tuple, or the
\* tuple with empty names when parse_pdf_receipt_info raises.
parse_payback_info(doc) ==
    IF doc.state = "ok" THEN ParseFields(doc)
    ELSE [payer |-> << >>, payee |-> << >>]

FieldMatch_Unguarded(name, parsed) == fuzzy_match(name, parsed)

\* fuzzy_match(name, parsed) if name else True
FieldMatch(name, parsed) ==
    IF name # << >> THEN fuzzy_match(name, parsed) ELSE TRUE

InitMatch ==
    /\ InitWith(0, {}, 0, 0, {})
    /\ ServiceRunning
    /\ ParseIdle /\ NoDocuments
    /\ MatchIdle
    /\ SendIdle /\ NoFiles

\* fuzzy_match is applied to a pair of strings.
Match(target, text) ==
    /\ probe' = [kind |-> "fuzzy", target |-> target, text |-> text,
                 result |-> fuzzy_match(target, text)]
    /\ UNCHANGED <<now, serviceVars, parseVars>>

\* The match test of a scan (both engines) on one candidate attachment.
ScanMatch(payer_name, payee_name, doc) ==
    LET parsed == parse_payback_info(doc)
        payee_match == FieldMatch(payee_name, parsed.payee)
        payer_match == FieldMatch(payer_name, parsed.payer)
    IN  /\ probe' = [kind |-> "scan", payer_name |-> payer_name,
                     payee_name |-> payee_name, doc |-> doc,
                     payer_match |-> payer_match, payee_match |-> payee_match,
                     result |-> (payee_match /\ payer_match)]
        /\ UNCHANGED <<now, serviceVars, parseVars>>

\* Each behaviour probes the matcher once.
NextMatch ==
    /\ probe.kind = "none"
    /\ \/ \E target \in Strings, text \in Strings : Match(target, text)
       \/ \E payer_name \in Filters, payee_name \in Filters, doc \in Documents :
              ScanMatch(payer_name, payee_name, doc)

SpecMatch == InitMatch /\ [][NextMatch]_vars

\* ----------------------------------------------------------------- task hash
\* The requests generate_task_hash is probed with: email types in either case
\* ("gm", "fm" for the two backends), names with and without surrounding
\* blanks, counts of one and two digits.
HashEmailTypes == {<< >>, <<"g", "m">>, <<"G", "m">>, <<"f", "m">>}
HashNames == UNION {[1..n -> {"a", " "}] : n \in 0..2}
HashCounts == {1, 12}
Requests ==
    [email_type : HashEmailTypes, payer_name : HashNames, payee_name : HashNames,
     count : HashCounts]

\* str.strip()
RECURSIVE lstrip(_)
lstrip(str) == IF str # << >> /\ Head(str) = " " THEN lstrip(Tail(str)) ELSE str
RECURSIVE rstrip(_)
rstrip(str) ==
    IF str # << >> /\ str[Len(str)] = " " THEN rstrip(SubSeq(str, 1, Len(str) - 1))
    ELSE str
strip(str) == rstrip(lstrip(str))

\* str(count)
RECURSIVE Digits(_)
Digits(n) == IF n < 10 THEN <<ToString(n)>> ELSE Digits(n \div 10) \o <<ToString(n % 10)>>

task_str_NoSeparator(payer_name, payee_name, count, email_type) ==
    LowerStr(strip(email_type)) \o strip(payer_name) \o strip(payee_name) \o Digits(count)

\* task_str of generate_task_hash; the md5 digest of it is taken as injective,
\* so that two requests have the same hash exactly when they have the same
\* task string.
task_str(payer_name, payee_name, count, email_type) ==
    LowerStr(strip(email_type)) \o <<"|">> \o strip(payer_name) \o <<"|">>
        \o strip(payee_name) \o <<"|">> \o Digits(count)

InitHash ==
    /\ InitWith(0, {}, 0, 0, {})
    /\ ServiceRunning
    /\ ParseIdle /\ NoDocuments
    /\ MatchIdle
    /\ SendIdle /\ NoFiles

\* Two requests are hashed.
HashPair(a, b) ==
    /\ probe' = [kind |-> "hash", a |-> a, b |-> b,
                 ha |-> task_str(a.payer_name, a.payee_name, a.count, a.email_type),
                 hb |-> task_str(b.payer_name, b.payee_name, b.count, b.email_type)]
    /\ UNCHANGED <<now, serviceVars, parseVars>>

NextHash ==
    /\ probe.kind = "none"
    /\ \E a \in Requests, b \in Requests : HashPair(a, b)

SpecHash == InitHash /\ [][NextHash]_vars

\* ------------------------------------------------------------------- delivery
\* What the delivery leaves alone.
deliveryFrame == <<now, serviceVars_NoSends, parseVars, probe>>

InitSend ==
    /\ InitWith(0, {}, 0, 0, {})
    /\ ServiceRunning
    /\ ParseIdle /\ NoDocuments
    /\ MatchIdle
    /\ SendIdle /\ NoFiles

\* await asyncio.gather(*[send_receipt(item) for item in results]): one
\* coroutine per record is created; semaphore = asyncio.Semaphore(5) exists and
\* no coroutine acquires it.
StartDelivery(n) ==
    /\ sends.phase = "idle"
    /\ sends' = [phase |-> "gather", st |-> [i \in 1..n |-> "created"], sent_count |-> 0]
    /\ UNCHANGED deliveryFrame

\* send_receipt(item) runs, in the order of creation, up to
\* await client.send_file(...): the upload is in flight.
SendStart(i) ==
    /\ sends.phase = "gather"
    /\ i \in DOMAIN sends.st
    /\ sends.st[i] = "created"
    /\ \A j \in 1..(i - 1) : sends.st[j] # "created"
    /\ sends' = [sends EXCEPT !.st[i] = "in_flight"]
    /\ UNCHANGED deliveryFrame

\* client.send_file returns (the send is counted and the files of the record
\* are removed) or raises (the exception is logged).
SendEnd(i, ok) ==
    /\ sends.phase = "gather"
    /\ i \in DOMAIN sends.st
    /\ sends.st[i] = "in_flight"
    /\ sends' = [sends EXCEPT !.st[i] = IF ok THEN "sent" ELSE "failed",
                              !.sent_count = IF ok THEN @ + 1 ELSE @]
    /\ UNCHANGED deliveryFrame

\* Every coroutine ended: gather returns.
EndDelivery ==
    /\ sends.phase = "gather"
    /\ \A i \in DOMAIN sends.st : sends.st[i] \in {"sent", "failed"}
    /\ sends' = [sends EXCEPT !.phase = "done"]
    /\ UNCHANGED deliveryFrame

NextSend ==
    \/ \E n \in 1..MaxRecords : StartDelivery(n)
    \/ \E i \in 1..MaxRecords : SendStart(i)
    \/ \E i \in 1..MaxRecords, ok \in BOOLEAN : SendEnd(i, ok)
    \/ EndDelivery

SpecSend == InitSend /\ [][NextSend]_vars

\* ------------------------------------------------------------------ properties
\* A run is in flight from the moment it inserted its processing entry until
\* fetch_combined_receipts returns.
InFlight(r) == pc[r] \in {"creds", "launch", "gather", "send"}

\* The run was not answered from the cache: it went on to the backends.
Proceeded(r) == pc[r] # "idle" /\ reply[r] \notin {"AlreadyProcessing", "CachedFresh"}

\* The matches found so far by the backend tasks of a run.
Accumulated(r) ==
    task[r]["gmail"].control.matched_count + task[r]["fastmail"].control.matched_count

\* The records returned by the tasks of a run that did not raise.
Survivors(r) ==
    (IF task[r]["gmail"].pc = "returned"
     THEN ItemsOf("gmail", task[r]["gmail"].scanned) ELSE << >>)
    \o (IF task[r]["fastmail"].pc = "returned"
        THEN ItemsOf("fastmail", task[r]["fastmail"].scanned) ELSE << >>)

PoolOf(b) == IF b = "gmail" THEN GMAIL_SERVICE_POOL ELSE FASTMAIL_CONN_POOL
KeyOf(b) == IF b = "gmail" THEN "pay" ELSE "fastmail"

\* The handles of a backend that were constructed, never closed, and are still
\* held by the pool or by a scan in progress.
Live(b) ==
    {h \in 1..built[b] :
        /\ h \notin closed[b]
        /\ \/ (KeyOf(b) \in DOMAIN PoolOf(b).connections
               /\ PoolOf(b).connections[KeyOf(b)] = h)
           \/ \E r \in Runs : task[r][b].handle = h}

\* C1: a request that arrives while a run with the same fingerprint is in
\* flight starts no fan-out: it is answered "already processing" or "cached
\* fresh" and returns.
C1_LateArrivalAnswered ==
    [][\A r \in Runs :
          (/\ pc[r] = "idle"
           /\ pc'[r] # "idle"
           /\ \E o \in Runs \ {r} :
                 /\ InFlight(o)
                 /\ TaskHash(o) = generate_task_hash(Payer, Payee, req'[r].count,
                                                     req'[r].email_type))
          => (pc'[r] = "done" /\ reply'[r] \in {"AlreadyProcessing", "CachedFresh"})]_vars

\* C2: in every reachable state no two runs with the same fingerprint are in
\* flight (TASK_CACHE, a dict, holds at most one entry per fingerprint).
C2_OneRunPerFingerprint ==
    \A r1, r2 \in Runs :
        (r1 # r2 /\ InFlight(r1) /\ InFlight(r2)) => TaskHash(r1) # TaskHash(r2)

\* C3: a run that went on to the backends has, when it returns, completed its
\* cache entry exactly once, and the entry is not left in the processing state.
C3_FinishExactlyOnce ==
    \A r \in Runs :
        (pc[r] = "done" /\ Proceeded(r))
            => /\ finishes[r] = 1
               /\ TaskHash(r) \in DOMAIN TASK_CACHE
               /\ TASK_CACHE[TaskHash(r)].status = "completed"

\* C4: the number of records handed to send_receipt never exceeds the
\* requested count.
C4_BoundedDelivery ==
    \A r \in Runs : Len(delivered[r]) <= req[r].count

\* C4 (witness): the backends found more matches than requested and exactly
\* `count` records were sent.
C4_MoreFoundThanSent ==
    \E r \in Runs :
        /\ pc[r] = "done"
        /\ reply[r] = "Sent"
        /\ Accumulated(r) > req[r].count
        /\ Len(delivered[r]) = req[r].count

\* C5: once the matches accumulated over the tasks of a run reach the
\* requested count, a task of that run that is still scanning ends at its next
\* step instead of going on to another candidate or page.
C5_CancellationPropagates ==
    [][\A r \in Runs, b \in Backends :
          (/\ pc[r] = "gather"
           /\ Accumulated(r) >= req[r].count
           /\ Scanning(task[r][b])
           /\ \/ task'[r][b].pc # task[r][b].pc
              \/ task'[r][b].scanned # task[r][b].scanned)
          => Terminal(task'[r][b])]_vars

\* C6: when a backend task of a run raised and the other tasks returned
\* records (that sort without error), the run has sent records to the
\* requester when it returns.
C6_FailureIsolation ==
    \A r \in Runs :
        (/\ pc[r] = "done"
         /\ \E b \in Backends : task[r][b].pc = "raised"
         /\ \A b \in Backends : task[r][b].pc \in {"none", "returned", "raised"}
         /\ Survivors(r) # << >>
         /\ ~SortRaises(Survivors(r)))
        => (reply[r] = "Sent" /\ delivered[r] # << >>)

\* C7: when the coordinator has returned (after merge, cache completion, reply
\* and removal of the temporary directories) no backend task of the run is
\* still connecting or scanning.
C7_FanInAfterAllTasks ==
    \A r \in Runs :
        pc[r] = "done" =>
            \A b \in Backends : task[r][b].pc \in {"none", "returned", "raised"}

\* C8: a scan that returned without an error, while the coordinator's signal
\* was not set, either reached the requested count or ran out of candidates.
C8_ScanEndsOnlyForCause ==
    \A r \in Runs, b \in Backends :
        (/\ task[r][b].pc = "returned"
         /\ task[r][b].exit # "error"
         /\ ~task_control[r].terminate)
        => \/ task[r][b].exit = "exhausted"
           \/ task[r][b].control.matched_count >= req[r].count

\* C9: a get on an identity whose pool entry exists and is within the pool
\* TTL constructs no handle.
C9_PoolReuse ==
    [][\A b \in Backends :
          (/\ KeyOf(b) \in DOMAIN PoolOf(b).connections
           /\ KeyOf(b) \in DOMAIN PoolOf(b).last_used
           /\ now - PoolOf(b).last_used[KeyOf(b)] <= POOL_TIMEOUT)
          => built'[b] = built[b]]_vars

\* C10: in every reachable state each credential identity has at most one
\* live handle.
C10_OneLiveHandle ==
    \A b \in Backends : Cardinality(Live(b)) <= 1

\* An attempt of a construction, or a use of the returned handle, has just
\* failed with an authentication error.
AuthFailed(b) ==
    \/ /\ Len(call'[b].failures) = Len(call[b].failures) + 1
       /\ call'[b].failures[Len(call'[b].failures)] \in AuthFailures
    \/ /\ call[b].pc = "returned"
       /\ call'[b].pc = "used"
       /\ call'[b].used = "AuthError"

\* C11: a step in which the construction or the use of a handle fails with an
\* authentication error leaves no pool entry for that identity, neither the
\* connection nor its last-used stamp.
C11_AuthFailureInvalidates ==
    [][\A b \in Backends :
          AuthFailed(b) =>
              /\ KeyOf(b) \notin DOMAIN PoolOf(b)'.connections
              /\ KeyOf(b) \notin DOMAIN PoolOf(b)'.last_used]_vars

\* C12: after a credential refresh failure get_gmail_service makes no further
\* attempt: its retry loop is never about to run another iteration with a
\* RefreshError behind it.
C12_ExpiryNotRetried ==
    ~(/\ call["gmail"].pc = "attempt"
      /\ \E i \in 1..Len(call["gmail"].failures) :
             call["gmail"].failures[i] = "RefreshError")

\* The handles a step took out of the pool of a backend.
Removed(b) ==
    IF /\ KeyOf(b) \in DOMAIN PoolOf(b).connections
       /\ KeyOf(b) \notin DOMAIN PoolOf(b)'.connections
    THEN {PoolOf(b).connections[KeyOf(b)]}
    ELSE {}

\* C13: after a pass of the pool sweep no entry idle for more than the pool
\* TTL remains in either pool, and every handle the pass removed was closed.
C13_SweepClosesAndRemoves ==
    [][passes' = passes + 1 =>
          \A b \in Backends :
              /\ ~Stale(PoolOf(b)', KeyOf(b), now)
              /\ Removed(b) \subseteq closed'[b]]_vars

\* C14: a construction goes on to another attempt only after transient
\* failures.
C14_OnlyTransientRetried ==
    \A b \in Backends :
        call[b].pc = "attempt" =>
            \A i \in 1..Len(call[b].failures) :
                call[b].failures[i] \in TransientFailures

C16_StaleParseEntriesSwept ==
    \A p \in DOMAIN pdf_text_cache :
        now - pdf_text_cache[p].timestamp <= PDF_CACHE_TTL + PDF_SWEEP_PERIOD

\* a occurs in b as a block of consecutive characters.
IsSubstring(a, b) ==
    \E i \in 1..(Len(b) - Len(a) + 1) : SubSeq(b, i, i + Len(a) - 1) = a

\* The length of the longest string that is a substring of both.
RefLCS(a, b) ==
    LET common == {n \in 0..Len(a) :
                      \E i \in 1..(Len(a) - n + 1), j \in 1..(Len(b) - n + 1) :
                          SubSeq(a, i, i + n - 1) = SubSeq(b, j, j + n - 1)}
    IN  CHOOSE n \in common : \A k \in common : k <= n

RefMatch(query, candidate) ==
    LET q == LowerStr(query)
        c == LowerStr(candidate)
        longer == IF Len(q) >= Len(c) THEN Len(q) ELSE Len(c)
    IN  \/ IsSubstring(q, c)
        \/ IsSubstring(c, q)
        \/ 5 * RefLCS(q, c) >= 3 * longer

\* C17: for non-empty strings fuzzy_match returns true exactly when, after
\* lower-casing, one string is a substring of the other or the longest common
\* substring is at least 0.6 of the longer string.
C17_FuzzyMatchAgreesWithReference ==
    (probe.kind = "fuzzy" /\ probe.target # << >> /\ probe.text # << >>)
        => (probe.result <=> RefMatch(probe.target, probe.text))

\* C17 (witness): a pair that matches by the ratio alone, at exactly 3/5, with
\* letters that differ in case.
C17_MatchAtThreshold ==
    /\ probe.kind = "fuzzy"
    /\ probe.result
    /\ Len(probe.target) = 4
    /\ Len(probe.text) = 5
    /\ RefLCS(LowerStr(probe.target), LowerStr(probe.text)) = 3
    /\ ~IsSubstring(LowerStr(probe.target), LowerStr(probe.text))
    /\ probe.target # LowerStr(probe.target)

\* C18 (as stated): fuzzy_match with an empty query is true for every candidate.
C18_EmptyQueryMatchesAll ==
    (probe.kind = "fuzzy" /\ probe.target = << >>) => probe.result

\* C18 (amended): fuzzy_match is false for an empty query, and a scan does not
\* apply it to an empty filter: the field of an empty filter matches every
\* candidate.
C18_EmptyFilterMatchesAll ==
    /\ (probe.kind = "fuzzy" /\ probe.target = << >>) => ~probe.result
    /\ probe.kind = "scan" =>
          /\ probe.payer_name = << >> => probe.payer_match
          /\ probe.payee_name = << >> => probe.payee_match

\* C18 (witness): a scan without a payee filter counted a candidate whose
\* payer matched the payer filter.
C18_NoPayeeFilterCounted ==
    /\ probe.kind = "scan"
    /\ probe.payee_name = << >>
    /\ probe.payer_name = <<"a">>
    /\ probe.doc.state = "ok"
    /\ probe.doc.payer = <<"a">>
    /\ probe.result

\* C19: a scan never counts a candidate whose payer (payee) name is missing
\* when the payer (payee) filter is not empty, and the field of an empty filter
\* matches every candidate.
C19_MissingNameNeverMatches ==
    probe.kind = "scan" =>
        /\ (probe.payer_name # << >> /\ probe.doc.payer = << >>) => ~probe.result
        /\ (probe.payee_name # << >> /\ probe.doc.payee = << >>) => ~probe.result
        /\ (probe.payer_name = << >> /\ probe.payee_name = << >>) => probe.result

\* C20: when every task of a run returned, the merge does not fail and the
\* records to deliver are in descending order of timestamp, the records without
\* a parsable timestamp last, cut to `count` so that the newest are kept.
C20_MergeOrder ==
    \A r \in Runs :
        (/\ pc[r] \in {"send", "done"}
         /\ Launched(r) # {}
         /\ \A b \in Launched(r) : task[r][b].pc = "returned"
         /\ Survivors(r) # << >>)
        => /\ reply[r] # "Error"
           /\ \A i, j \in 1..Len(results[r]) :
                 i < j => results[r][i].date >= results[r][j].date
           /\ Len(results[r]) = Min(req[r].count, Len(Survivors(r)))
           /\ \A k \in 1..Len(Survivors(r)) :
                 (\A i \in 1..Len(results[r]) : results[r][i] # Survivors(r)[k])
                     => \A i \in 1..Len(results[r]) :
                            results[r][i].date >= Survivors(r)[k].date

InFlightSends == {i \in DOMAIN sends.st : sends.st[i] = "in_flight"}

\* C21: during a delivery at most 5 sends are in flight at any moment.
C21_BoundedSendConcurrency ==
    Cardinality(InFlightSends) <= SEND_SEMAPHORE

\* C22: when a run has returned and all of its backend tasks have ended, no
\* file of the run is left on disk.
C22_NoOrphanedFiles ==
    \A r \in Runs :
        (pc[r] = "done" /\ \A b \in Backends : task[r][b].pc \in {"none", "returned", "raised"})
            => \A b \in Backends : disk[r][b] = {}

gmail_service_lock_held == call["gmail"].pc = "attempt"

\* C24: while the pool lock is held, no network call has been made and no
\* backoff sleep has been slept under it.
C24_LockGuardsOnlyMap ==
    gmail_service_lock_held =>
        (call["gmail"].failures = << >> /\ call["gmail"].slept = << >>)

\* The run asked for one record from both backends, every task returned
\* without an error, backend a found no match and the newest message of backend
\* b matched.
OneOfTwo(r, a, b) ==
    /\ pc[r] = "done"
    /\ req[r] = [email_type |-> "", count |-> 1]
    /\ a # b
    /\ task[r][a].pc = "returned" /\ task[r][a].exit # "error"
    /\ task[r][b].pc = "returned" /\ task[r][b].exit # "error"
    /\ \A k \in 1..Len(task[r][a].scanned) : ~task[r][a].scanned[k].match
    /\ Len(task[r][b].scanned) >= 1
    /\ task[r][b].scanned[1].match

\* C25: with both backends enabled and count = 1, when backend a has no
\* matching document and the newest document of backend b matches, the run
\* delivers exactly the record of that document, and the task of backend a ended
\* exhausted with no record.
C25_OneRecordFromMatchingBackend ==
    \A r \in Runs, a \in Backends, b \in Backends :
        OneOfTwo(r, a, b) =>
            /\ reply[r] = "Sent"
            /\ delivered[r] =
                   <<[src |-> b, n |-> 1, date |-> task[r][b].scanned[1].date]>>
            /\ task[r][a].exit = "exhausted"
            /\ ItemsOf(a, task[r][a].scanned) = << >>

\* C25 (witness): Gmail scanned a message that did not match, FastMail matched
\* on its newest message and the record was sent.
C25_FastmailRecordSent ==
    \E r \in Runs :
        /\ OneOfTwo(r, "gmail", "fastmail")
        /\ Len(task[r]["gmail"].scanned) >= 1
        /\ sent_count[r] = 1

\* Every task of the run returned without an error and without a match.
NothingFound(r) ==
    /\ Launched(r) # {}
    /\ \A b \in Launched(r) :
          /\ task[r][b].pc = "returned"
          /\ task[r][b].exit # "error"
          /\ task[r][b].control.matched_count = 0

\* C26: when every task of a run returned without a match and without an
\* error, the run leaves the gather with the no-match reply, delivers nothing
\* and completes its cache entry with has_result = false.
C26_NoMatchIsExplicit ==
    [][\A r \in Runs :
          (pc[r] = "gather" /\ pc'[r] # "gather" /\ NothingFound(r))
              => /\ pc'[r] = "done"
                 /\ reply'[r] = "NoMatch"
                 /\ delivered'[r] = << >>
                 /\ TaskHash(r) \in DOMAIN TASK_CACHE'
                 /\ TASK_CACHE'[TaskHash(r)] = CacheEntry("completed", now, FALSE)]_vars

\* C26 (witness): both backends were scanned, no message matched, and the run
\* answered that nothing was found.
C26_BothScannedNothingFound ==
    \E r \in Runs :
        /\ pc[r] = "done"
        /\ reply[r] = "NoMatch"
        /\ NothingFound(r)
        /\ \A b \in Backends : Len(task[r][b].scanned) >= 1
        /\ TaskHash(r) \in DOMAIN TASK_CACHE
        /\ ~TASK_CACHE[TaskHash(r)].has_result

\* Run r takes a request in this step.
Arrives(r) == pc[r] = "idle" /\ pc'[r] # "idle"

\* The task hash of the request run r takes in this step.
ArrivingHash(r) == generate_task_hash(Payer, Payee, req'[r].count, req'[r].email_type)

\* The cache holds a completed entry for the hash, stamped at most 30 s ago.
CompletedFresh(h) ==
    /\ h \in DOMAIN TASK_CACHE
    /\ TASK_CACHE[h].status = "completed"
    /\ now - TASK_CACHE[h].timestamp <= CACHE_EXPIRE_SECONDS

\* C27 (as stated): a request whose hash has a completed entry within the 30 s
\* TTL is answered CachedFresh and starts no backend work, whatever the
\* has_result value of the entry.
C27_CompletedIsFresh ==
    [][\A r \in Runs :
          (Arrives(r) /\ CompletedFresh(ArrivingHash(r)))
              => (reply'[r] = "CachedFresh" /\ pc'[r] = "done")]_vars

\* C27 (amended): a request whose hash has a completed entry with a result
\* within the 30 s TTL is answered CachedFresh and starts no backend work; a
\* completed entry without a result is discarded and the request proceeds with
\* a new processing entry.
C27_CompletedWithResultIsFresh ==
    [][\A r \in Runs :
          (Arrives(r) /\ CompletedFresh(ArrivingHash(r)))
              => IF TASK_CACHE[ArrivingHash(r)].has_result
                 THEN /\ reply'[r] = "CachedFresh"
                      /\ pc'[r] = "done"
                      /\ TASK_CACHE'[ArrivingHash(r)] = TASK_CACHE[ArrivingHash(r)]
                 ELSE /\ pc'[r] = "creds"
                      /\ TASK_CACHE'[ArrivingHash(r)] = CacheEntry("processing", now, FALSE)]_vars

\* C27 (witness): a request was answered CachedFresh while the entry of an
\* earlier run that sent records was within the TTL.
C27_AnsweredFromCache ==
    \E r1, r2 \in Runs :
        /\ r1 # r2
        /\ reply[r1] = "Sent"
        /\ reply[r2] = "CachedFresh"
        /\ CompletedFresh(TaskHash(r2))
        /\ TASK_CACHE[TaskHash(r2)].has_result

\* Leading and trailing blanks removed.
Trimmed(str) ==
    LET keep == {i \in 1..Len(str) : str[i] # " "}
    IN  IF keep = {} THEN << >>
        ELSE SubSeq(str, CHOOSE i \in keep : \A j \in keep : i <= j,
                         CHOOSE i \in keep : \A j \in keep : j <= i)

\* The normalised components of a request.
Normalised(q) ==
    [email_type |-> LowerStr(Trimmed(q.email_type)), payer_name |-> Trimmed(q.payer_name),
     payee_name |-> Trimmed(q.payee_name), count |-> q.count]

\* C28: two requests get the same task hash exactly when their backend filters
\* are equal after trimming and lower-casing, their names are equal after
\* trimming and their counts are equal.
C28_HashIsNormalisedRequest ==
    probe.kind = "hash" =>
        ((probe.ha = probe.hb) <=> (Normalised(probe.a) = Normalised(probe.b)))

\* C28 (witness): two requests that differ in the case of the backend filter
\* and in the blanks around the payer name got the same hash.
C28_SameAfterNormalisation ==
    /\ probe.kind = "hash"
    /\ probe.a.email_type # probe.b.email_type
    /\ probe.a.payer_name # probe.b.payer_name
    /\ Trimmed(probe.a.payer_name) # << >>
    /\ probe.ha = probe.hb

\* C30: right after a request was taken, the cache holds no entry older than
\* 30 s, and every entry that was at most 30 s old is still there (the entry of
\* the request's own hash may have been replaced, the others are untouched).
C30_LazySweepOnAcquire ==
    [][\A r \in Runs : Arrives(r) =>
          /\ \A h \in DOMAIN TASK_CACHE' :
                now - TASK_CACHE'[h].timestamp <= CACHE_EXPIRE_SECONDS
          /\ \A h \in DOMAIN TASK_CACHE :
                now - TASK_CACHE[h].timestamp <= CACHE_EXPIRE_SECONDS
                    => /\ h \in DOMAIN TASK_CACHE'
                       /\ h # ArrivingHash(r) => TASK_CACHE'[h] = TASK_CACHE[h]]_vars

\* C30 (witness): a request has just been taken, and the entry of an earlier
\* run with another hash is gone from the cache.
C30_OldEntrySwept ==
    \E r1, r2 \in Runs :
        /\ pc[r2] = "creds"
        /\ TaskHash(r2) \in DOMAIN TASK_CACHE
        /\ TASK_CACHE[TaskHash(r2)].timestamp = now
        /\ Proceeded(r1)
        /\ TaskHash(r1) # TaskHash(r2)
        /\ TaskHash(r1) \notin DOMAIN TASK_CACHE

\* C31: a completed cache entry says has_result only if the run that completed
\* it sent at least one record to the requester.
C31_HasResultMeansSent ==
    \A r \in Runs :
        (/\ reply[r] = "Sent"
         /\ TaskHash(r) \in DOMAIN TASK_CACHE
         /\ TASK_CACHE[TaskHash(r)].status = "completed"
         /\ TASK_CACHE[TaskHash(r)].has_result
         /\ \A r2 \in Runs : (r2 # r /\ TaskHash(r2) = TaskHash(r)) => reply[r2] # "Sent")
            => sent_count[r] >= 1

\* C32: a request that arrives while the cache holds a completed entry without
\* a result for its hash, within the 30 s TTL, is not answered from the cache:
\* the entry is replaced by a processing entry stamped now and the run goes on
\* to its credential check and fan-out.
C32_NoResultEntryProceeds ==
    [][\A r \in Runs :
          (/\ Arrives(r)
           /\ CompletedFresh(ArrivingHash(r))
           /\ ~TASK_CACHE[ArrivingHash(r)].has_result)
              => /\ pc'[r] = "creds"
                 /\ reply'[r] = reply[r]
                 /\ TASK_CACHE'[ArrivingHash(r)] =
                        [status |-> "processing", timestamp |-> now, has_result |-> FALSE]]_vars

\* C32 (witness): a run ended without a result and, within the TTL of its
\* entry, a second run of the same request has gone through its fan-out.
C32_RetriedAfterNoResult ==
    \E r1, r2 \in Runs :
        /\ r1 < r2
        /\ TaskHash(r1) = TaskHash(r2)
        /\ reply[r1] \in {"NoMatch", "NoCredentials", "Error"}
        /\ finishes[r1] = 1
        /\ now <= CACHE_EXPIRE_SECONDS
        /\ pc[r2] = "done"
        /\ reply[r2] \in {"NoMatch", "Sent"}

\* C33: whatever the interleaving of the parses of one path, every value
\* parse_pdf_receipt_info returns is the field tuple, never the raw text the
\* function caches before it caches the tuple.
C33_ParseReturnsTuple ==
    \A w \in Workers : workers[w].got.kind \in {"none", "tuple"}

\* C34: every record of a scan carries the fields of the attachment of its own
\* message, also when an earlier message of the scan had an attachment of the
\* same file name.
C34_RecordFromOwnAttachment ==
    \A w \in Workers :
        workers[w].got.kind = "tuple"
            => workers[w].got = TupleResult(ParseFields(workers[w].msg))

\* The pool of backend b holds handle h.
Pooled(b, h) ==
    /\ KeyOf(b) \in DOMAIN PoolOf(b).connections
    /\ PoolOf(b).connections[KeyOf(b)] = h

\* C35: a pass of the pool sweep neither closes nor removes the handle a scan
\* got from the pool and is still using, however long the scan has run.
C35_SweepSparesHandleInUse ==
    [][passes' = passes + 1 =>
          \A b \in Backends :
              (call[b].pc = "returned" /\ Pooled(b, call[b].handle))
                  => /\ call[b].handle \notin closed'[b]
                     /\ Pooled(b, call[b].handle)']_vars

\* C36: in every state of each pool 'connections' and 'last_used' have the same
\* keys, and no deletion fails on a missing key, whatever the interleaving of
\* construction, sweep, credential reset and the invalidation _fetch_mail does
\* in its worker thread.
C36_PoolKeysAgree ==
    /\ \A b \in Backends :
          DOMAIN PoolOf(b).connections = DOMAIN PoolOf(b).last_used
    /\ \A b \in Backends : call[b].used # "KeyError"

\* C37: fuzzy_match gives the same answer when its two arguments are swapped,
\* and a non-empty string matches itself.
C37_FuzzyMatchSymmetric ==
    probe.kind = "fuzzy" =>
        /\ probe.result = fuzzy_match(probe.text, probe.target)
        /\ (probe.target = probe.text /\ probe.target # << >>) => probe.result

\* C37 (witness): fuzzy_match was true on a query that is a proper part of the
\* candidate, of which the candidate is no part.
C37_MatchedProperPart ==
    /\ probe.kind = "fuzzy"
    /\ probe.result
    /\ Len(probe.target) < Len(probe.text)
    /\ In(LowerStr(probe.target), LowerStr(probe.text))
    /\ 10 * longest_common_substring(LowerStr(probe.target), LowerStr(probe.text))
           < 6 * Len(probe.text)

\* C38: the termination watcher of a backend task runs only while the task
\* runs: when fetch_gmail or fetch_fastmail has returned or raised, its watcher
\* has been cancelled and awaited.
C38_NoWatcherOutlivesTask ==
    \A r \in Runs, b \in Backends :
        task[r][b].watcher => (task[r][b].pc # "none" /\ ~Terminal(task[r][b]))

\* C38 (witness): in one run a backend task returned its items and the other
\* raised, both after their watchers had been started.
C38_ReturnedAndRaised ==
    \E r \in Runs, b1, b2 \in Backends :
        /\ task[r][b1].pc = "returned"
        /\ task[r][b1].exit = "quota"
        /\ task[r][b2].pc = "raised"
        /\ ~task[r][b1].watcher
        /\ ~task[r][b2].watcher

====
